---------------------------- MODULE Spec2Model ----------------------------
(***************************************************************************)
(* Model of serpent (src/serpent.py): a raw-mode prompt (class Prompt), a  *)
(* background reader thread (Serpent.__read_serial) and the session loop   *)
(* (Serpent.run), together with the default filters.                       *)
(*                                                                         *)
(* Bytes and characters are numbers (their codes); byte strings and text   *)
(* are sequences of numbers; None is the number -1 where a byte may be     *)
(* absent.                                                                 *)
(***************************************************************************)
EXTENDS Integers, Sequences, FiniteSets, TLC

\* ------------------------------------------------------------ bounds
\* Most bytes the transport delivers when the reader runs alone.
MaxStream == 4
\* Most bytes one read_all() returns.
MaxChunk == 2
\* Most bytes the user types when the session loop runs alone.
MaxKeys == 5
\* The same two for the whole session (both threads).
SessionKeys == 2
SessionStream == 1
\* The same two where the session is checked under fair scheduling.
FairKeys == 2
FairStream == 1
\* Most history entries, and most characters of an entry or of the line,
\* where completion is checked on its own.
MaxHist == 2
MaxEntry == 2

\* ------------------------------------------------------------ constants
BACKSPACE == 127
LF == 10
TAB == 9
\* The absent value: paint() read no byte / returned None.
None == -1

\* ------------------------------------------------------------ alphabets
\* Transport bytes: terminator, 'a', 'b', and 0xDE, 0xAD (no ASCII meaning).
StreamBytes == {LF, 97, 98, 222, 173}
\* Keyboard bytes: backspace, line feed, tab, 'a', 'b', BEL (not printable),
\* 0xC8 (not ASCII).
KeyBytes == {BACKSPACE, LF, TAB, 97, 98, 7, 200}
\* The characters of history entries and of the line where completion is
\* checked on its own: 'a', 'b'.
EntryChars == {97, 98}
\* The alphabets of the whole-session specification.
SessionStreamBytes == {LF, 97}
SessionKeyBytes == {LF, 97, 200}
\* The keyboard alphabet where the session is checked under fair scheduling.
FairKeyBytes == {LF, 97}

\* ------------------------------------------------------------ helpers
BSeq(S, n) == UNION {[1..k -> S] : k \in 0..n}

Range(s) == {s[i] : i \in 1..Len(s)}

IsPrefix(s, t) == Len(s) <= Len(t) /\ SubSeq(t, 1, Len(s)) = s

\* bytes.find(b'\n'): the first index holding the byte (1-based here).
Find(data, b) == CHOOSE i \in 1..Len(data) :
                     data[i] = b /\ \A j \in 1..(i - 1) : data[j] # b

\* bytes.decode("ascii", errors="ignore"): bytes >= 128 are dropped.
DecodeIgnore(data) == SelectSeq(data, LAMBDA b : b < 128)

\* One hexadecimal digit as a character: 0-9, a-f.
HexDigit(n) == IF n < 10 THEN 48 + n ELSE 87 + n

\* bytes.hex(): two lower-case digits per byte.
RECURSIVE Hex(_)
Hex(data) == IF data = <<>> THEN <<>>
             ELSE <<HexDigit(Head(data) \div 16), HexDigit(Head(data) % 16)>>
                  \o Hex(Tail(data))

\* str.isprintable() on a one-character ASCII string.
IsPrintable(ch) == ch >= 32 /\ ch <= 126

\* str.startswith
StartsWith(s, p) == IsPrefix(p, s)

\* What a for loop over x yields: the elements of a list, the one-character
\* strings of a str.
IterItems(x, isStr) == IF isStr THEN [i \in 1..Len(x) |-> <<x[i]>>] ELSE x

\* ------------------------------------------------------------ filters
\* A text filter whose lines keep their terminator (data[:pos + 1]).
RECURSIVE TextInputFilterKeepsLF(_)
TextInputFilterKeepsLF(data) ==
    IF LF \notin Range(data)
    THEN [lines |-> <<>>, rest |-> data, isStr |-> FALSE]
    ELSE LET pos  == Find(data, LF)
             line == DecodeIgnore(SubSeq(data, 1, pos))
             r    == TextInputFilterKeepsLF(SubSeq(data, pos + 1, Len(data)))
         IN  [lines |-> <<line>> \o r.lines, rest |-> r.rest, isStr |-> FALSE]

\* A text filter that forgets the unterminated tail instead of returning it.
RECURSIVE TextInputFilterNoCarry(_)
TextInputFilterNoCarry(data) ==
    IF LF \notin Range(data)
    THEN [lines |-> <<>>, rest |-> <<>>, isStr |-> FALSE]
    ELSE LET pos  == Find(data, LF)
             line == DecodeIgnore(SubSeq(data, 1, pos - 1))
             r    == TextInputFilterNoCarry(SubSeq(data, pos + 1, Len(data)))
         IN  [lines |-> <<line>> \o r.lines, rest |-> r.rest, isStr |-> FALSE]

\* __default_text_input_filter: (lines, remaining data).
RECURSIVE TextInputFilter(_)
TextInputFilter(data) ==
    IF LF \notin Range(data)
    THEN [lines |-> <<>>, rest |-> data, isStr |-> FALSE]
    ELSE LET pos  == Find(data, LF)
             line == DecodeIgnore(SubSeq(data, 1, pos - 1))
             r    == TextInputFilter(SubSeq(data, pos + 1, Len(data)))
         IN  [lines |-> <<line>> \o r.lines, rest |-> r.rest, isStr |-> FALSE]

\* __default_binary_input_filter returns the two-element list
\* [data.hex(), bytes()]: unpacked by the reader, "lines" is the hex str.
BinaryInputFilter(data) == [lines |-> Hex(data), rest |-> <<>>, isStr |-> TRUE]

\* __default_output_filter: (user_input + '\n').encode("ascii"), which
\* raises UnicodeEncodeError on a character >= 128.
DefaultOutputFilter(user_input) ==
    IF \E i \in 1..Len(user_input) : user_input[i] >= 128
    THEN [raised |-> TRUE, cmd |-> <<>>]
    ELSE [raised |-> FALSE, cmd |-> user_input \o <<LF>>]

\* A plugin's input filter is opaque.  The model lets it keep the data for
\* later, or (given data) turn all of it into the one line "p".
PluginInputResults(data) ==
    {[lines |-> <<>>, rest |-> data, isStr |-> FALSE]}
    \cup (IF data = <<>> THEN {}
          ELSE {[lines |-> <<<<112>>>>, rest |-> <<>>, isStr |-> FALSE]})

\* The results the selected input filter can return for data.
InputFilterResults(kind, data) ==
    CASE kind = "text"   -> {TextInputFilter(data)}
      [] kind = "binary" -> {BinaryInputFilter(data)}
      [] OTHER           -> PluginInputResults(data)

\* A plugin's output filter is opaque: it raises, returns nothing, or returns
\* some bytes.
PluginOutputResults(user_input) ==
    {[raised |-> TRUE, cmd |-> <<>>], [raised |-> FALSE, cmd |-> <<>>],
     [raised |-> FALSE, cmd |-> user_input]}

\* The results the selected output filter can return for user_input.
OutputFilterResults(kind, user_input) ==
    IF kind = "plugin" THEN PluginOutputResults(user_input)
    ELSE {DefaultOutputFilter(user_input)}

VARIABLES
    \* configuration (main)
    echo,           \* --echo
    filters,        \* "text" | "binary" | "plugin"
    \* terminal
    tty_mode,       \* "orig" | "cbreak"
    nonblock,       \* O_NONBLOCK set on stdin
    restores,       \* number of tcsetattr(old_settings) calls
    keys_left,      \* how many bytes the user will still type
    printed,        \* lines printed above the prompt, in order
    shown,          \* text drawn in the prompt row
    \* Prompt
    prompt,         \* __prompt
    history,        \* __history
    output_queue,   \* __output_queue
    c,              \* paint(): the byte read (None: no byte)
    line_read,      \* paint(): line_read, <<>> for None, <<line>> for a line
    \* Serpent.run
    bpc,            \* where the session loop is
    stop_kind,      \* "running", or the message run() ended with
    serial_out,     \* bytes written to the transport
    \* Serpent.__read_serial
    rpc,            \* where the reader thread is
    buffer,         \* buffer
    lines,          \* the items the for loop still has to print
    stop_event,     \* __stop_event
    bytes_left,     \* how many bytes the transport will still deliver
    serial_in,      \* bytes read_all() has returned so far
    \* history variables
    enqueued,       \* lines the reader passed to Prompt.print, in order
    nreads,         \* read_all() calls that returned at least one byte
    last_read,      \* the bytes the latest read_all() returned
    queued,         \* lines put on __output_queue, in order
    sets,           \* __stop_event.set() calls
    returned,       \* lines paint() returned (not None), in order
    submitted,      \* lines handed to the output filter, in order
    late_paints     \* paint() calls begun after __stop_event was set

cfgVars    == <<echo, filters>>
termVars   == <<tty_mode, nonblock, restores, keys_left, printed, shown>>
promptVars == <<prompt, history, c, line_read>>
bridgeVars == <<bpc, stop_kind, serial_out, returned, submitted, late_paints>>
readerVars == <<rpc, buffer, lines, bytes_left, serial_in, enqueued, nreads,
                last_read>>
vars == <<cfgVars, termVars, promptVars, bridgeVars, readerVars,
          output_queue, queued, stop_event, sets>>

\* ------------------------------------------------------------ construction
\* Serpent.__init__ and Prompt.__init__ have run: the terminal is in cbreak,
\* non-blocking mode, the prompt, the history and the queue are empty.
Constructed ==
    /\ tty_mode = "cbreak" /\ nonblock = TRUE /\ restores = 0
    /\ printed = <<>> /\ shown = <<>>
    /\ prompt = <<>> /\ history = <<>> /\ output_queue = <<>>
    /\ c = None /\ line_read = <<>>
    /\ stop_kind = "running" /\ serial_out = <<>>
    /\ buffer = <<>> /\ lines = <<>> /\ stop_event = FALSE
    /\ serial_in = <<>> /\ enqueued = <<>> /\ nreads = 0 /\ sets = 0
    /\ returned = <<>> /\ submitted = <<>> /\ late_paints = 0
    /\ last_read = <<>> /\ queued = <<>>

\* ------------------------------------------------------------ Prompt
\* Prompt.print (line 87)
PromptPrint(queue, line) == Append(queue, line)

\* A get that takes the newest line instead of the oldest.
QueueGetNewest(queue) ==
    [line |-> queue[Len(queue)], rest |-> SubSeq(queue, 1, Len(queue) - 1)]

\* line 76: get_nowait() on a non-empty queue, the line and what is left.
QueueGet(queue) == [line |-> Head(queue), rest |-> Tail(queue)]

\* A slice that removes the first character.
DropFirst(p) == SubSeq(p, 2, Len(p))

\* line 56: self.__prompt[:-1]
DropLast(p) == SubSeq(p, 1, Len(p) - 1)

\* Prompt.__autocomplete (lines 90-93): the for loop from index i down.
RECURSIVE AutocompleteFrom(_, _, _)
AutocompleteFrom(h, p, i) ==
    IF i = 0 THEN p
    ELSE AutocompleteFrom(h, IF StartsWith(h[i], p) THEN h[i] ELSE p, i - 1)

\* A completion that takes the newest matching entry other than the line.
AutocompleteNextMatch(h, p) ==
    LET M == {i \in 1..Len(h) : StartsWith(h[i], p) /\ h[i] # p}
    IN  IF M = {} THEN p ELSE h[CHOOSE i \in M : \A j \in M : j <= i]

\* A completion whose test is prompt.startswith(entry).
RECURSIVE AutocompleteSwappedFrom(_, _, _)
AutocompleteSwappedFrom(h, p, i) ==
    IF i = 0 THEN p
    ELSE AutocompleteSwappedFrom(h, IF StartsWith(p, h[i]) THEN h[i] ELSE p,
                                 i - 1)

AutocompleteSwapped(h, p) == AutocompleteSwappedFrom(h, p, Len(h))

Autocomplete(h, p) == AutocompleteFrom(h, p, Len(h))

\* An append that skips the empty line.
HistoryAppendSkipEmpty(h, line) == IF line = <<>> THEN h ELSE Append(h, line)

\* line 62: self.__history.append(line_read)
HistoryAppend(h, line) == Append(h, line)

\* An echo without the prefix.
EchoLineNoPrefix(p) == p

\* lines 58-59: the echo of a submitted line.
EchoLine(p) == <<62, 32>> \o p

\* An append without the isprintable() test.
AcceptByteUnchecked(p, key) == Append(p, key)

\* lines 68-70 for a byte str() can decode: the prompt after the byte.
AcceptByte(p, key) == IF IsPrintable(key) THEN Append(p, key) ELSE p

\* line 68: str(c, "ascii") raises UnicodeDecodeError.  Only the else branch
\* (not a usable backspace, not line feed, not tab) decodes the byte.
DecodeRaises(p, key) ==
    /\ ~(key = BACKSPACE /\ Len(p) >= 1)
    /\ key # LF
    /\ key # TAB
    /\ key >= 128

\* An exception leaves the try block of run() (lines 129-132): the handler
\* prints its message and run() returns.
RunExcept(kind) ==
    /\ bpc' = "returned"
    /\ stop_kind' = kind

\* The session loop is inside its try block.
InLoop == bpc \in {"paint", "drain", "get", "redraw", "send", "check"}

LatePaint == IF stop_event THEN late_paints + 1 ELSE late_paints

\* paint(), lines 51-54: no byte is pending on stdin.
PaintNoInput ==
    /\ bpc = "paint"
    /\ c' = None
    /\ line_read' = <<>>
    /\ late_paints' = LatePaint
    /\ bpc' = "drain"
    /\ UNCHANGED <<cfgVars, termVars, prompt, history, stop_kind, serial_out,
                   returned, submitted, readerVars, output_queue, queued,
                   stop_event, sets>>

\* paint(), lines 51-70: the byte key is read and acted on.
PaintInput(key) ==
    /\ bpc = "paint"
    /\ keys_left > 0
    /\ keys_left' = keys_left - 1
    /\ c' = key
    /\ late_paints' = LatePaint
    /\  IF key = BACKSPACE /\ Len(prompt) >= 1 THEN
              /\ prompt' = DropLast(prompt)
              /\ line_read' = <<>>
              /\ bpc' = "drain"
              /\ UNCHANGED <<history, output_queue, queued, stop_kind>>
           ELSE IF key = LF THEN
              /\ output_queue' = IF echo
                                  THEN PromptPrint(output_queue, EchoLine(prompt))
                                  ELSE output_queue
              /\ queued' = IF echo THEN Append(queued, EchoLine(prompt))
                                   ELSE queued
              /\ line_read' = <<prompt>>
              /\ history' = HistoryAppend(history, prompt)
              /\ prompt' = <<>>
              /\ bpc' = "drain"
              /\ UNCHANGED stop_kind
           ELSE IF key = TAB THEN
              /\ prompt' = Autocomplete(history, prompt)
              /\ line_read' = <<>>
              /\ bpc' = "drain"
              /\ UNCHANGED <<history, output_queue, queued, stop_kind>>
           ELSE IF DecodeRaises(prompt, key) THEN
              /\ RunExcept("UnicodeDecodeError")
              /\ line_read' = <<>>
              /\ UNCHANGED <<prompt, history, output_queue, queued>>
           ELSE
              /\ prompt' = AcceptByte(prompt, key)
              /\ line_read' = <<>>
              /\ bpc' = "drain"
              /\ UNCHANGED <<history, output_queue, queued, stop_kind>>
    /\ UNCHANGED <<cfgVars, tty_mode, nonblock, restores, printed, shown,
                   serial_out, returned, submitted, readerVars, stop_event,
                   sets>>

\* A paint() that dequeues without the test.
PaintDrainNoTest ==
    /\ bpc = "drain"
    /\ shown' = <<>>
    /\ bpc' = "get"
    /\ UNCHANGED <<cfgVars, tty_mode, nonblock, restores, keys_left, printed,
                   promptVars, stop_kind, serial_out, returned, submitted,
                   late_paints, readerVars, output_queue, queued, stop_event,
                   sets>>

\* paint(), lines 73-75: erase the prompt row, test the queue.
PaintDrain ==
    /\ bpc = "drain"
    /\ shown' = <<>>
    /\ bpc' = IF output_queue # <<>> THEN "get" ELSE "redraw"
    /\ UNCHANGED <<cfgVars, tty_mode, nonblock, restores, keys_left, printed,
                   promptVars, stop_kind, serial_out, returned, submitted,
                   late_paints, readerVars, output_queue, queued, stop_event,
                   sets>>

\* paint(), lines 76-78: get_nowait() and print; queue.Empty would leave
\* paint() and the loop.
PaintGet ==
    /\ bpc = "get"
    /\ IF output_queue = <<>> THEN
          /\ RunExcept("queue.Empty")
          /\ UNCHANGED <<output_queue, printed>>
       ELSE
          /\ printed' = Append(printed, QueueGet(output_queue).line)
          /\ output_queue' = QueueGet(output_queue).rest
          /\ bpc' = "redraw"
          /\ UNCHANGED stop_kind
    /\ UNCHANGED <<cfgVars, tty_mode, nonblock, restores, keys_left, shown,
                   promptVars, serial_out, returned, submitted, late_paints,
                   readerVars, queued, stop_event, sets>>

\* paint(), lines 81-83: redraw the prompt and return line_read.
PaintRedraw ==
    /\ bpc = "redraw"
    /\ shown' = prompt
    /\ returned' = returned \o line_read
    /\ bpc' = "send"
    /\ UNCHANGED <<cfgVars, tty_mode, nonblock, restores, keys_left, printed,
                   promptVars, stop_kind, serial_out, submitted, late_paints,
                   readerVars, output_queue, queued, stop_event, sets>>

\* ------------------------------------------------------------ Serpent.run
\* lines 112-114: the reader thread is started.
RunStart ==
    /\ bpc = "start"
    /\ rpc = "unstarted"
    /\ rpc' = "read"
    /\ bpc' = "paint"
    /\ UNCHANGED <<cfgVars, termVars, promptVars, stop_kind, serial_out,
                   returned, submitted, late_paints, buffer, lines, bytes_left,
                   serial_in, enqueued, nreads, last_read, output_queue,
                   queued, stop_event, sets>>

\* line 119: "if user_input:" is true of a line that is not None and not "".
Truthy(user_input) == user_input # <<>> /\ user_input[1] # <<>>

\* lines 119-122 without an exception: the output filter's result is written
\* when it is non-empty.
BridgeSend ==
    /\ bpc = "send"
    /\ IF Truthy(line_read) THEN
          /\ \E r \in OutputFilterResults(filters, line_read[1]) :
                /\ ~r.raised
                /\ serial_out' = serial_out \o r.cmd
          /\ submitted' = Append(submitted, line_read[1])
       ELSE
          UNCHANGED <<serial_out, submitted>>
    /\ bpc' = "check"
    /\ UNCHANGED <<cfgVars, termVars, promptVars, stop_kind, returned,
                   late_paints, readerVars, output_queue, queued, stop_event,
                   sets>>

\* line 120 raises: the output filter fails.
OutputFilterRaises ==
    /\ bpc = "send"
    /\ Truthy(line_read)
    /\ \E r \in OutputFilterResults(filters, line_read[1]) : r.raised
    /\ submitted' = Append(submitted, line_read[1])
    /\ RunExcept("output filter error")
    /\ UNCHANGED <<cfgVars, termVars, promptVars, serial_out, returned,
                   late_paints, readerVars, output_queue, queued, stop_event,
                   sets>>

\* A write whose exception is caught inside the loop, which goes on.
SerialWriteSwallowed ==
    /\ bpc = "send"
    /\ Truthy(line_read)
    /\ \E r \in OutputFilterResults(filters, line_read[1]) :
          ~r.raised /\ r.cmd # <<>>
    /\ submitted' = Append(submitted, line_read[1])
    /\ bpc' = "check"
    /\ UNCHANGED <<cfgVars, termVars, promptVars, stop_kind, serial_out,
                   returned, late_paints, readerVars, output_queue, queued,
                   stop_event, sets>>

\* line 122 raises: the transport rejects the write.
SerialWriteRaises ==
    /\ bpc = "send"
    /\ Truthy(line_read)
    /\ \E r \in OutputFilterResults(filters, line_read[1]) :
          ~r.raised /\ r.cmd # <<>>
    /\ submitted' = Append(submitted, line_read[1])
    /\ RunExcept("write error")
    /\ UNCHANGED <<cfgVars, termVars, promptVars, serial_out, returned,
                   late_paints, readerVars, output_queue, queued, stop_event,
                   sets>>

\* A loop that never looks at the stop event.
BridgeCheckIgnoresEvent ==
    /\ bpc = "check"
    /\ bpc' = "paint"
    /\ UNCHANGED <<cfgVars, termVars, promptVars, stop_kind, serial_out,
                   returned, submitted, late_paints, readerVars, output_queue,
                   queued, stop_event, sets>>

\* lines 124-127: the stop event ends the loop, otherwise sleep and go on.
BridgeCheck ==
    /\ bpc = "check"
    /\ IF stop_event THEN RunExcept("failed")
       ELSE bpc' = "paint" /\ UNCHANGED stop_kind
    /\ UNCHANGED <<cfgVars, termVars, promptVars, serial_out, returned,
                   submitted, late_paints, readerVars, output_queue, queued,
                   stop_event, sets>>

\* lines 129-130: KeyboardInterrupt anywhere in the try block.
Interrupt ==
    /\ InLoop
    /\ RunExcept("interrupted")
    /\ UNCHANGED <<cfgVars, termVars, promptVars, serial_out, returned,
                   submitted, late_paints, readerVars, output_queue, queued,
                   stop_event, sets>>

\* Prompt.__del__ (lines 41-42), once the Prompt object is released after
\* run() has returned: only the saved termios settings are written back.
PromptDel ==
    /\ bpc = "returned"
    /\ restores = 0
    /\ tty_mode' = "orig"
    /\ restores' = restores + 1
    /\ UNCHANGED <<cfgVars, nonblock, keys_left, printed, shown, promptVars,
                   bridgeVars, readerVars, output_queue, queued, stop_event,
                   sets>>

NextBridge(Keys) ==
    \/ PaintNoInput
    \/ \E key \in Keys : PaintInput(key)
    \/ PaintDrain
    \/ PaintGet
    \/ PaintRedraw
    \/ BridgeSend
    \/ OutputFilterRaises
    \/ SerialWriteRaises
    \/ BridgeCheck
    \/ Interrupt
    \/ PromptDel

\* ------------------------------------------------------------ reader thread
\* A read that overwrites the buffer: buffer = self.__serial.read_all().
ReadSerialDropsPending(chunk) ==
    /\ rpc = "read"
    /\ Len(chunk) <= bytes_left
    /\ buffer' = chunk
    /\ serial_in' = serial_in \o chunk
    /\ bytes_left' = bytes_left - Len(chunk)
    /\ nreads' = IF chunk # <<>> THEN nreads + 1 ELSE nreads
    /\ last_read' = chunk
    /\ rpc' = "filter"
    /\ UNCHANGED <<cfgVars, termVars, promptVars, bridgeVars, lines, enqueued,
                   output_queue, queued, stop_event, sets>>

\* line 139: buffer = buffer + self.__serial.read_all(); read_all() returns
\* the bytes chunk.
ReadSerial(chunk) ==
    /\ rpc = "read"
    /\ Len(chunk) <= bytes_left
    /\ buffer' = buffer \o chunk
    /\ serial_in' = serial_in \o chunk
    /\ bytes_left' = bytes_left - Len(chunk)
    /\ nreads' = IF chunk # <<>> THEN nreads + 1 ELSE nreads
    /\ last_read' = chunk
    /\ rpc' = "filter"
    /\ UNCHANGED <<cfgVars, termVars, promptVars, bridgeVars, lines, enqueued,
                   output_queue, queued, stop_event, sets>>

\* An except clause inside the while loop: the event is set and the loop
\* goes on.
ReaderExceptRetries ==
    /\ stop_event' = TRUE
    /\ sets' = sets + 1
    /\ rpc' = "read"

\* lines 147-148: the except clause of the reader.
ReaderExcept ==
    /\ stop_event' = TRUE
    /\ sets' = sets + 1
    /\ rpc' = "dead"

\* line 139 raises (port closed, I/O error).
ReadSerialRaises ==
    /\ rpc = "read"
    /\ ReaderExcept
    /\ UNCHANGED <<cfgVars, termVars, promptVars, bridgeVars, buffer, lines,
                   bytes_left, serial_in, enqueued, nreads, last_read,
                   output_queue, queued>>

\* line 141: lines, buffer = self.__input_filter(buffer, extra_args)
InputFilter ==
    /\ rpc = "filter"
    /\ \E r \in InputFilterResults(filters, buffer) :
          /\ lines' = IterItems(r.lines, r.isStr)
          /\ buffer' = r.rest
    /\ rpc' = "print"
    /\ UNCHANGED <<cfgVars, termVars, promptVars, bridgeVars, bytes_left,
                   serial_in, enqueued, nreads, last_read, output_queue,
                   queued, stop_event, sets>>

\* line 141 raises: only a plugin's filter can.
InputFilterRaises ==
    /\ rpc = "filter"
    /\ filters = "plugin"
    /\ ReaderExcept
    /\ UNCHANGED <<cfgVars, termVars, promptVars, bridgeVars, buffer, lines,
                   bytes_left, serial_in, enqueued, nreads, last_read,
                   output_queue, queued>>

\* lines 143-144: one turn of the for loop.
ReaderPrint ==
    /\ rpc = "print"
    /\ lines # <<>>
    /\ output_queue' = PromptPrint(output_queue, Head(lines))
    /\ enqueued' = Append(enqueued, Head(lines))
    /\ queued' = Append(queued, Head(lines))
    /\ lines' = Tail(lines)
    /\ UNCHANGED <<cfgVars, termVars, promptVars, bridgeVars, rpc, buffer,
                   bytes_left, serial_in, nreads, last_read, stop_event, sets>>

\* line 146: the for loop is over; sleep, then the next turn of while True.
ReaderSleep ==
    /\ rpc = "print"
    /\ lines = <<>>
    /\ rpc' = "read"
    /\ UNCHANGED <<cfgVars, termVars, promptVars, bridgeVars, buffer, lines,
                   bytes_left, serial_in, enqueued, nreads, last_read,
                   output_queue, queued, stop_event, sets>>

NextReader(Bytes) ==
    \/ \E chunk \in BSeq(Bytes, MaxChunk) : ReadSerial(chunk)
    \/ ReadSerialRaises
    \/ InputFilter
    \/ InputFilterRaises
    \/ ReaderPrint
    \/ ReaderSleep

\* The reader thread alone: the thread has been started, the session loop is
\* not scheduled.
InitReader ==
    /\ Constructed
    /\ echo = FALSE
    /\ filters \in {"text", "binary", "plugin"}
    /\ keys_left = 0
    /\ bytes_left = MaxStream
    /\ bpc = "paint"
    /\ rpc = "read"

ReaderSpec == InitReader /\ [][NextReader(StreamBytes)]_vars

\* The session loop alone: the reader thread has been started and is not
\* scheduled; the user types up to MaxKeys bytes of KeyBytes.
InitEditor ==
    /\ Constructed
    /\ echo \in BOOLEAN
    /\ filters \in {"text", "plugin"}
    /\ keys_left = MaxKeys
    /\ bytes_left = 0
    /\ bpc = "paint"
    /\ rpc = "read"

EditorSpec == InitEditor /\ [][NextBridge(KeyBytes)]_vars

\* The whole session: run() is called on a constructed Serpent.
Init ==
    /\ Constructed
    /\ echo \in BOOLEAN
    /\ filters \in {"text", "binary", "plugin"}
    /\ keys_left = SessionKeys
    /\ bytes_left = SessionStream
    /\ bpc = "start"
    /\ rpc = "unstarted"

Next ==
    \/ RunStart
    \/ NextBridge(SessionKeyBytes)
    \/ NextReader(SessionStreamBytes)

NextFair ==
    \/ RunStart
    \/ NextBridge(FairKeyBytes)
    \/ NextReader(SessionStreamBytes)

Spec == Init /\ [][Next]_vars

\* The scheduler runs both threads: neither the session loop nor the reader
\* waits forever while it has a step to take.
InitFair ==
    /\ Constructed
    /\ echo \in BOOLEAN
    /\ filters \in {"text", "plugin"}
    /\ keys_left = FairKeys
    /\ bytes_left = FairStream
    /\ bpc = "start"
    /\ rpc = "unstarted"

FairSpec ==
    /\ InitFair
    /\ [][NextFair]_vars
    /\ WF_vars(NextBridge(FairKeyBytes))
    /\ WF_vars(NextReader(SessionStreamBytes))

\* The bytes run() has written (lines 119-122, default output filter) once
\* paint() has returned the lines ls.
RECURSIVE Written(_)
Written(ls) ==
    IF ls = <<>> THEN <<>>
    ELSE LET front == SubSeq(ls, 1, Len(ls) - 1)
             last  == ls[Len(ls)]
         IN  Written(front) \o (IF Truthy(<<last>>)
                                   THEN DefaultOutputFilter(last).cmd
                                   ELSE <<>>)

\* Completion on its own.  The user has submitted the lines h and typed the
\* line p (echo off, default filters, a silent transport, every cycle
\* complete); from here the user presses tab twice and nothing else happens.
Typed(h, p) ==
    /\ tty_mode = "cbreak" /\ nonblock = TRUE /\ restores = 0
    /\ printed = <<>> /\ shown = p
    /\ prompt = p /\ history = h /\ output_queue = <<>>
    /\ c = None /\ line_read = <<>>
    /\ stop_kind = "running" /\ serial_out = Written(h)
    /\ buffer = <<>> /\ lines = <<>> /\ stop_event = FALSE
    /\ serial_in = <<>> /\ enqueued = <<>> /\ nreads = 0 /\ sets = 0
    /\ returned = h /\ submitted = SelectSeq(h, LAMBDA l : l # <<>>)
    /\ late_paints = 0 /\ last_read = <<>> /\ queued = <<>>

InitComplete ==
    /\ \E h \in BSeq(BSeq(EntryChars, MaxEntry), MaxHist) :
       \E p \in BSeq(EntryChars, MaxEntry) : Typed(h, p)
    /\ echo = FALSE
    /\ filters = "text"
    /\ keys_left = 2
    /\ bytes_left = 0
    /\ bpc = "paint"
    /\ rpc = "read"

NextComplete ==
    \/ PaintNoInput
    \/ PaintInput(TAB)
    \/ PaintDrain
    \/ PaintRedraw
    \/ BridgeSend
    \/ BridgeCheck

CompleteSpec == InitComplete /\ [][NextComplete]_vars

\* ============================================================ claims

\* The terminator-delimited segments of a whole stream, by position: the
\* places of the terminators, and the bytes between two neighbours.
TermPos(s) == {i \in 1..Len(s) : s[i] = LF}
NthTerm(s, k) == IF k = 0 THEN 0
                 ELSE CHOOSE i \in TermPos(s) :
                          Cardinality({j \in TermPos(s) : j <= i}) = k
Segments(s) == [k \in 1..Cardinality(TermPos(s)) |->
                   SubSeq(s, NthTerm(s, k - 1) + 1, NthTerm(s, k) - 1)]
Unterminated(s) == SubSeq(s, NthTerm(s, Cardinality(TermPos(s))) + 1, Len(s))
SegmentLines(s) == [k \in 1..Len(Segments(s)) |-> DecodeIgnore(Segments(s)[k])]

\* C1 (line reassembly, text filter): however the stream is cut into reads,
\* the lines the reader has enqueued are always the first decoded segments of
\* the bytes delivered so far, in order, and at the end of every cycle they
\* are all of them, the unterminated tail being the pending buffer.
C1_LineReassembly ==
    filters = "text" =>
        /\ IsPrefix(enqueued, SegmentLines(serial_in))
        /\ rpc \in {"print", "read", "dead"} =>
              /\ enqueued \o lines = SegmentLines(serial_in)
              /\ buffer = Unterminated(serial_in)

\* C1 witness: a line "ab" whose bytes (one of them undecodable) arrived one
\* per read has been enqueued after an earlier line.
C1_Witness ==
    /\ filters = "text"
    /\ rpc = "read"
    /\ serial_in = <<LF, 97, 222, LF>>
    /\ nreads = 4
    /\ enqueued = <<<<>>, <<97>>>>

\* C6 (binary mode, one line per cycle): a filter call on a non-empty
\* combined buffer B in binary mode leaves exactly one line to enqueue, the
\* hexadecimal text of B, and an empty pending buffer.
C6_BinaryOneLine ==
    [][(rpc = "filter" /\ filters = "binary" /\ buffer # <<>> /\ rpc' = "print")
          => (lines' = <<Hex(buffer)>> /\ buffer' = <<>>)]_vars

\* C8 (no byte loss across chunks): the text filter applied to bytes d without
\* a terminator returns no lines and d itself; applied to d followed by one
\* terminator it returns the one line d decoded and nothing else.
C8_NoByteLoss ==
    [][(rpc = "filter" /\ filters = "text" /\ rpc' = "print") =>
          /\ LF \notin Range(buffer) => (lines' = <<>> /\ buffer' = buffer)
          /\ (buffer # <<>> /\ TermPos(buffer) = {Len(buffer)}) =>
                /\ lines' = <<DecodeIgnore(SubSeq(buffer, 1, Len(buffer) - 1))>>
                /\ buffer' = <<>>]_vars

\* C8 witness: d = 'a' 0xDE was returned as the remainder of one cycle, the
\* terminator arrived alone in a later read, and the line "a" came out.
C8_Witness ==
    /\ filters = "text"
    /\ rpc = "print"
    /\ serial_in = <<97, 222, LF>>
    /\ nreads = 2
    /\ lines = <<<<97>>>>
    /\ buffer = <<>>

\* C2 (failure propagation): once the reader has set the stop event the
\* session loop begins at most one more paint(), its next check of the event
\* ends the loop (as failed, unless an interrupt ends it first), and under
\* fair scheduling run() always returns.
C2_FailurePropagation ==
    /\ [](late_paints <= 1)
    /\ [][(bpc = "check" /\ stop_event /\ bpc' # bpc)
            => (bpc' = "returned" /\ stop_kind' \in {"failed", "interrupted"})]_vars
    /\ (stop_event ~> bpc = "returned")

\* C2 witness: the event was set while the loop slept; one more paint() ran
\* and the check after it stopped the session as failed.
C2_Witness ==
    /\ stop_event
    /\ late_paints = 1
    /\ bpc = "returned"
    /\ stop_kind = "failed"

\* A step in which paint() reads the byte key from stdin.
Reads(key) == bpc = "paint" /\ keys_left' # keys_left /\ c' = key

\* C3 (terminal restoration on every exit path): when run() has returned the
\* terminal has been restored exactly once, to its original mode and to
\* blocking reads.
C3_TerminalRestored ==
    bpc = "returned" => (tty_mode = "orig" /\ ~nonblock /\ restores = 1)

\* The bytes the default output filter makes of a sequence of lines.
RECURSIVE Framed(_)
Framed(ls) == IF ls = <<>> THEN <<>> ELSE Head(ls) \o <<LF>> \o Framed(Tail(ls))

\* C4 (every submission reaches the transport): when a cycle has passed its
\* send step every line paint() has returned was handed to the output filter,
\* and with the default output filter the transport has received exactly
\* those lines, in order, each followed by a terminator.
C4_EverySubmissionSent ==
    bpc = "check" =>
        /\ submitted = returned
        /\ filters # "plugin" => serial_out = Framed(returned)

\* The entry the claim selects: the most recently added one starting with p.
MostRecentMatch(h, p) ==
    LET M == {i \in 1..Len(h) : StartsWith(h[i], p)}
    IN  IF M = {} THEN p ELSE h[CHOOSE i \in M : \A j \in M : j <= i]

\* C5 (completion selects the most recent match): a tab transition replaces
\* the line with the most recently added history entry that starts with it,
\* and leaves it alone when there is none.
C5_MostRecentMatch ==
    [][Reads(TAB) => prompt' = MostRecentMatch(history, prompt)]_vars

\* C7 (unusable bytes are ignored): a byte that is not backspace, line feed
\* or tab and is not printable or not ASCII leaves the line and the history
\* alone, returns nothing, and paint() goes on to its erase and redraw.
C7_UnusableIgnored ==
    [][(\E key \in (0..255) \ {BACKSPACE, LF, TAB} :
            Reads(key) /\ (key >= 128 \/ ~IsPrintable(key)))
          => (prompt' = prompt /\ history' = history /\ line_read' = <<>>
              /\ bpc' = "drain" /\ stop_kind' = "running")]_vars

\* C9 (history is append-only and append-always): the history changes only
\* in a line-feed transition, which appends the submitted line, empty or
\* not, and returns it; between two paint() calls the history is the
\* sequence of lines paint() has returned.
C9_HistoryAppendOnly ==
    /\ [][history' # history => Reads(LF)]_vars
    /\ [][Reads(LF)
            => (history' = Append(history, prompt) /\ line_read' = <<prompt>>)]_vars
    /\ [](bpc \in {"paint", "send", "check"} => history = returned)

\* C9 witness: "a" and then the empty line were submitted and returned.
C9_Witness ==
    /\ bpc = "check"
    /\ history = <<<<97>>, <<>>>>
    /\ returned = history

\* C10 (reader failure handling): an exception in the reader sets the stop
\* event and ends the reader; a dead reader reads, filters and enqueues no
\* more; the event is set once, by a reader step alone, and never cleared.
C10_ReaderFailure ==
    /\ [](sets <= 1 /\ (stop_event <=> sets = 1) /\ (stop_event <=> rpc = "dead"))
    /\ [][stop_event => stop_event']_vars
    /\ [][stop_event' # stop_event
            => (rpc \in {"read", "filter"} /\ rpc' = "dead"
                /\ UNCHANGED <<bridgeVars, promptVars, output_queue>>)]_vars
    /\ [][rpc = "dead"
            => (rpc' = "dead"
                /\ UNCHANGED <<buffer, lines, bytes_left, serial_in, enqueued, nreads>>)]_vars

\* C10 witness: the reader died in a later cycle, after it had enqueued a
\* line that is still queued, and the session loop runs on.
C10_Witness ==
    /\ rpc = "dead"
    /\ sets = 1
    /\ enqueued # <<>>
    /\ output_queue # <<>>
    /\ bpc = "drain"
    /\ late_paints = 1

\* C11 (FIFO queue): the lines printed so far followed by the lines still
\* queued are exactly the lines enqueued so far, in order, so the printed
\* lines are a prefix of the enqueued ones; a print happens only in the
\* dequeue step of paint(), takes the head of the queue and prints that one
\* line; the dequeue step is entered from the queue test only, and the queue
\* test from the start of paint() only, so one paint() prints at most one
\* line; the queue grows at its tail only and shrinks only by a print.
C11_Fifo ==
    /\ [](queued = printed \o output_queue /\ IsPrefix(printed, queued))
    /\ [][printed' # printed
            => (/\ bpc = "get" /\ bpc' = "redraw"
                /\ output_queue # <<>>
                /\ printed' = Append(printed, Head(output_queue))
                /\ output_queue' = Tail(output_queue))]_vars
    /\ [][(bpc' = "get" => bpc \in {"drain", "get"})
          /\ (bpc' = "drain" => bpc \in {"paint", "drain"})
          /\ (bpc = "get" /\ bpc' # "get" => bpc' \in {"redraw", "returned"})]_vars
    /\ [][output_queue' # output_queue
            => \/ printed' # printed
               \/ (/\ Len(queued') = Len(queued) + 1
                   /\ output_queue' = Append(output_queue, queued'[Len(queued')])
                   /\ printed' = printed)]_vars

\* C11 witness: the reader's line and then the echo were enqueued, the
\* reader's line has been printed and the echo is still queued.
C11_Witness ==
    /\ echo
    /\ Len(queued) = 2
    /\ queued[2] = EchoLine(<<97>>)
    /\ enqueued = <<queued[1]>>
    /\ printed = <<queued[1]>>
    /\ output_queue = <<queued[2]>>

\* C12 (no enqueued line is dropped): every line placed on the queue is
\* printed by some paint().  run() calls paint() for the last time before
\* it returns, so the claim requires that no line is left on the queue at
\* the step in which the session ends.
C12_NoLineDropped ==
    [][bpc # "returned" /\ bpc' = "returned" => output_queue = <<>>]_vars

\* C13 (write-side failures are fatal in the same cycle): a cycle that hands
\* a line to the output filter and does not go on to the stop-event check,
\* or whose bytes (default filter) do not reach the transport, ends the
\* session in that step with the failure's message and without a write; a
\* session that carries a failure message has returned; after the return
\* there is no paint(), no filter call and no write.
WriteSideFailure == {"output filter error", "write error"}

C13_WriteFailureFatal ==
    /\ [][(/\ bpc = "send"
           /\ submitted' # submitted
           /\ (bpc' # "check" \/ (filters = "text" /\ serial_out' = serial_out)))
            => (/\ bpc' = "returned"
                /\ stop_kind' \in WriteSideFailure
                /\ serial_out' = serial_out)]_vars
    /\ [](stop_kind \in WriteSideFailure => bpc = "returned")
    /\ [][bpc = "returned"
            => (/\ bpc' = "returned"
                /\ UNCHANGED <<stop_kind, serial_out, submitted, returned,
                               printed, shown, promptVars, keys_left,
                               output_queue>>)]_vars

\* C13 witness: the first submission was written, the write of the second
\* one failed and the session has ended with that failure.
C13_Witness ==
    /\ bpc = "returned"
    /\ stop_kind = "write error"
    /\ Len(submitted) = 2
    /\ serial_out = <<97, LF>>

\* C14 (backspace boundary): a paint() that reads the backspace byte while
\* the line is empty leaves the line empty and the history unchanged,
\* returns no line, enqueues nothing and goes on to the rest of the cycle
\* with the session running; on a non-empty line the old line is the new
\* line followed by the old line's last character.
C14_BackspaceBoundary ==
    [][Reads(BACKSPACE)
        => (/\ history' = history
            /\ line_read' = <<>>
            /\ output_queue' = output_queue
            /\ bpc' = "drain"
            /\ stop_kind' = "running"
            /\ IF prompt = <<>>
                  THEN prompt' = <<>>
                  ELSE prompt = Append(prompt', prompt[Len(prompt)]))]_vars

\* C14 witness: the only byte read so far is a backspace, on the empty line.
C14_Witness ==
    /\ c = BACKSPACE
    /\ keys_left = MaxKeys - 1
    /\ prompt = <<>>
    /\ bpc = "redraw"
    /\ stop_kind = "running"

\* C15 (completion is idempotent): when the user presses tab twice with no
\* other key between, the second tab leaves the line as the first tab left
\* it, for every history and every line.
C15_CompletionIdempotent ==
    [][Reads(TAB) /\ keys_left = 1 => prompt' = prompt]_vars

\* C15 witness: the first tab completed "a" to the entry "ab", which is not
\* the newest entry starting with "a", and the second tab has been read.
C15_Witness ==
    /\ history = <<<<97, 98>>, <<97>>>>
    /\ prompt = <<97, 98>>
    /\ shown = <<97, 98>>
    /\ c = TAB
    /\ keys_left = 0
    /\ bpc = "drain"

\* C16 (pending-buffer carry-over): the buffer changes in two steps only, the
\* read, which appends the bytes read_all() returned to it, and the filter
\* call, which replaces it by the remainder the filter returned; so the
\* bytes handed to the filter are the remainder of the previous cycle (empty
\* in the first) followed by the bytes read in this cycle.  With the text
\* filter a cycle that read nothing hands back the same buffer and no line.
C16_CarryOver ==
    /\ [][rpc = "read" /\ rpc' = "filter"
            => (/\ buffer' = buffer \o last_read'
                /\ serial_in' = serial_in \o last_read')]_vars
    /\ [][buffer' # buffer
            => \/ rpc = "read" /\ rpc' = "filter"
               \/ (/\ rpc = "filter" /\ rpc' = "print"
                   /\ \E r \in InputFilterResults(filters, buffer) :
                         buffer' = r.rest)]_vars
    /\ [][rpc = "filter" /\ rpc' = "print" /\ filters = "text"
          /\ last_read = <<>>
            => (buffer' = buffer /\ lines' = <<>>)]_vars
    /\ [][enqueued' # enqueued => ~(filters = "text" /\ last_read = <<>>)]_vars

\* C16 witness: a plugin's filter kept 'a' for later, the next read brought
\* 'b', and the filter is about to be handed both.
C16_Witness ==
    /\ filters = "plugin"
    /\ rpc = "filter"
    /\ nreads = 2
    /\ last_read = <<98>>
    /\ buffer = <<97, 98>>
    /\ enqueued = <<>>

\* C17 (submission and echo): a paint() that reads a line feed takes the
\* line as its result and empties the line; with echo on it puts "> " and
\* the line at the tail of the queue, behind whatever is queued, and with
\* echo off it leaves the queue alone; the result is what paint() returns;
\* with echo on the queue has received one entry per submission besides the
\* reader's lines, with echo off the reader's lines only.
C17_SubmissionEcho ==
    /\ [][Reads(LF)
            => (/\ line_read' = <<prompt>>
                /\ prompt' = <<>>
                /\ output_queue' = IF echo
                                      THEN Append(output_queue, <<62, 32>> \o prompt)
                                      ELSE output_queue)]_vars
    /\ [][bpc = "redraw" /\ bpc' = "send" /\ c = LF
            => (line_read # <<>> /\ returned' = Append(returned, line_read[1]))]_vars
    /\ [](IF echo THEN Len(queued) = Len(enqueued) + Len(history)
                  ELSE queued = enqueued)

\* C17 witness: with echo on the line "a" was submitted while a line of the
\* reader was queued; the echo stands behind it.
C17_Witness ==
    /\ echo
    /\ c = LF
    /\ bpc = "drain"
    /\ line_read = <<<<97>>>>
    /\ prompt = <<>>
    /\ Len(enqueued) = 1
    /\ output_queue = <<enqueued[1], <<62, 32, 97>>>>

\* C18 (the editable line): the line, and every history entry a completion
\* may copy into it, holds only characters from space to tilde; the line
\* changes only in the step of paint() that reads a byte; a step that
\* makes it longer is a tab, or appends the one printable byte just read;
\* after a line feed was read the line is empty.
C18_EditableLine ==
    /\ [](/\ \A i \in 1..Len(prompt) : prompt[i] \in 32..126
          /\ \A k \in 1..Len(history) :
                \A i \in 1..Len(history[k]) : history[k][i] \in 32..126)
    /\ [][prompt' # prompt => \E key \in KeyBytes : Reads(key)]_vars
    /\ [][Len(prompt') > Len(prompt)
            => \/ Reads(TAB)
               \/ (prompt' = Append(prompt, c') /\ c' \in 32..126)]_vars
    /\ [](c = LF => prompt = <<>>)

\* C18 witness: "ab" was submitted and a tab on the empty line has brought
\* it back, two characters in one cycle.
C18_Witness ==
    /\ c = TAB
    /\ bpc = "drain"
    /\ keys_left = MaxKeys - 4
    /\ history = <<<<97, 98>>>>
    /\ prompt = <<97, 98>>

\* C19 (the dequeue is race-free): whenever paint() stands between its
\* queue test and get_nowait() the queue is non-empty, whatever the reader
\* has done meanwhile; no session ends on queue.Empty; the queue gets
\* shorter only in the get step of paint(), and a step of the reader only
\* extends it.
C19_DequeueRaceFree ==
    /\ [](bpc = "get" => output_queue # <<>>)
    /\ [](stop_kind # "queue.Empty")
    /\ [][Len(output_queue') < Len(output_queue)
            => (bpc = "get" /\ bpc' = "redraw")]_vars
    /\ [][rpc' # rpc \/ lines' # lines
            => IsPrefix(output_queue, output_queue')]_vars

\* C19 witness: paint() has found the queue non-empty and has not dequeued
\* yet, while the reader is in the middle of enqueuing its lines.
C19_Witness ==
    /\ bpc = "get"
    /\ rpc = "print"
    /\ lines # <<>>
    /\ output_queue # <<>>
    /\ enqueued # <<>>

\* The line while the backward scan runs: its value once the entries at the
\* indices Len(h) down to k have been compared.
RECURSIVE ScanValue(_, _, _)
ScanValue(h, p, k) ==
    IF k > Len(h) THEN p
    ELSE LET v == ScanValue(h, p, k + 1)
         IN  IF IsPrefix(v, h[k]) THEN h[k] ELSE v

\* C20 (completion only extends the line): after a tab the line starts with
\* the line before the tab, and is that line or an entry of the history; it
\* is the last value of a backward scan in which every value starts with
\* the value before it.
C20_CompletionExtends ==
    [][Reads(TAB)
        => (/\ IsPrefix(prompt, prompt')
            /\ (prompt' = prompt \/ \E k \in 1..Len(history) : history[k] = prompt')
            /\ prompt' = ScanValue(history, prompt, 1)
            /\ \A k \in 1..Len(history) :
                  IsPrefix(ScanValue(history, prompt, k + 1),
                           ScanValue(history, prompt, k)))]_vars

\* C20 witness: one tab on the empty line, with the history "ab", "a": the
\* scan went from "" to "a" and from "a" to "ab".
C20_Witness ==
    /\ history = <<<<97, 98>>, <<97>>>>
    /\ prompt = <<97, 98>>
    /\ shown = <<>>
    /\ c = TAB
    /\ keys_left = 1
    /\ bpc = "drain"

============================================================================
